---- MODULE Spec2Model ----
(***************************************************************************)
(* Hull lofting and curve reconstruction: the half-breadth resolver and    *)
(* the wireframe lofter of model_3d_generator.py, the curve reconstructor  *)
(* and the mouse handlers of line_interaction.py, update_2d_lines of       *)
(* line_2d_generator.py and the three parameter validators.                *)
(*                                                                         *)
(* Numbers.  Control-point coordinates are integers; every computed value  *)
(* (an interpolated half-breadth, a sample abscissa) is an exact rational  *)
(* <<n, d>> in lowest terms with d > 0.  Floating-point rounding is not    *)
(* modelled.                                                               *)
(***************************************************************************)
EXTENDS Integers, Sequences, FiniteSets, TLC

VARIABLES two_d_data, wireframe, log, probe, curve_in, curve_out,
          editor, last_event, update_call, param_check, lofted, hull_test

vars == <<two_d_data, wireframe, log, probe, curve_in, curve_out,
          editor, last_event, update_call, param_check, lofted, hull_test>>

----------------------------------------------------------------------------
(* Bounds of the model *)

\* longest side_profile that is enumerated
MaxSide == 3
\* longest half_breadth that is enumerated
MaxHalf == 3

\* side-profile control points (x, z) the inputs are built from
SidePoints == { <<0, 1>>, <<2, 3>>, <<4, 2>> }
\* half-breadth control points (x, y) the lofter's inputs are built from
HalfPoints == { <<1, 2>>, <<3, -1>>, <<1, -2>>, <<2, 1>> }
\* half-breadth control points of the resolver's inputs
HalfXs == {1, 2, 4}
HalfYs == {-1, 0, 2}
\* abscissas the resolver is asked for
QueryXs == 0 .. 5
\* longest list of curve control points that is enumerated
MaxPts == 3
\* control points (x, y) of the curves that are reconstructed
CurvePoints ==
    { <<0, <<0, 1>> >>, <<1, <<1, 1>> >>, <<2, <<0, 1>> >>,
      <<3, <<2, 1>> >>, <<3, <<0, 0>> >> }
\* longest closed outline that is enumerated
MaxClosed == 5
\* control points of the closed outlines that are reconstructed
ClosedPoints ==
    { <<0, <<0, 1>> >>, <<1, <<1, 1>> >>, <<3, <<2, 1>> >>, <<3, <<0, 0>> >> }
\* line_version values of the inputs
LineVersions == {1, 2}
\* a cross_sections mapping: station x |-> closed outline of (y, z) points
SampleCrossSections == (3 :> << <<0, 0>>, <<1, 1>>, <<0, 2>>, <<-1, 1>>, <<0, 0>> >>)

SeqsUpTo(S, n) == UNION { [1 .. k -> S] : k \in 0 .. n }

----------------------------------------------------------------------------
(* Exact rational arithmetic *)

Abs(n) == IF n < 0 THEN -n ELSE n

RECURSIVE GCD(_, _)
GCD(a, b) == IF b = 0 THEN a ELSE GCD(b, a % b)

\* the rational n/d (d # 0) in lowest terms, denominator positive
Rat(n, d) ==
    LET g == GCD(Abs(n), Abs(d))
        s == IF d < 0 THEN -1 ELSE 1
    IN  << (s * n) \div g, (s * d) \div g >>

Int2Rat(n) == << n, 1 >>
RAdd(a, b) == Rat(a[1] * b[2] + b[1] * a[2], a[2] * b[2])
RSub(a, b) == Rat(a[1] * b[2] - b[1] * a[2], a[2] * b[2])
RMul(a, b) == Rat(a[1] * b[1], a[2] * b[2])
RDiv(a, b) == Rat(a[1] * b[2], a[2] * b[1])
RNeg(a) == << -a[1], a[2] >>
RLt(a, b) == a[1] * b[2] < b[1] * a[2]
RLe(a, b) == a[1] * b[2] <= b[1] * a[2]
RAbs(a) == << Abs(a[1]), a[2] >>
RZero == << 0, 1 >>
\* a float that is not finite
NaN == << 0, 0 >>
IsNaN(a) == a[2] = 0

----------------------------------------------------------------------------
(* model_3d_generator.py: input validation *)

SetMin(S) == CHOOSE m \in S : \A e \in S : m <= e
SetMax(S) == CHOOSE m \in S : \A e \in S : e <= m
Range(s) == { s[i] : i \in 1 .. Len(s) }

\* [p[0] for p in points]
first_coords(points) == [i \in 1 .. Len(points) |-> points[i][1]]
\* [p[1] for p in points]
second_coords(points) == [i \in 1 .. Len(points) |-> points[i][2]]

\* the monotonicity check with < in place of <=
side_x_increasing_strict(side_x) ==
    \A i \in 1 .. Len(side_x) - 1 : side_x[i] < side_x[i + 1]

\* all(side_x[i] <= side_x[i+1] for i in range(len(side_x)-1))
side_x_increasing(side_x) ==
    \A i \in 1 .. Len(side_x) - 1 : side_x[i] <= side_x[i + 1]

\* the condition of the x-range warning: the two x-ranges are disjoint
range_mismatch(side_x, half_x) ==
    LET side_x_min == SetMin(Range(side_x))
        side_x_max == SetMax(Range(side_x))
        half_x_min == SetMin(Range(half_x))
        half_x_max == SetMax(Range(half_x))
    IN  half_x_max < side_x_min \/ half_x_min > side_x_max

\* _validate_input_data: the ValueError it raises ("" when it returns) and
\* the warnings it logs
validate_input_data(data) ==
    IF data.side_profile = << >> THEN
        [error |-> "side_profile empty", log |-> << >>]
    ELSE IF data.half_breadth = << >> THEN
        [error |-> "half_breadth empty", log |-> << >>]
    ELSE IF Len(data.side_profile) < 2 THEN
        [error |-> "side_profile too short", log |-> << >>]
    ELSE IF ~ side_x_increasing(first_coords(data.side_profile)) THEN
        [error |-> "side_profile x not increasing", log |-> << >>]
    ELSE
        [error |-> "",
         log |-> IF range_mismatch(first_coords(data.side_profile),
                                   first_coords(data.half_breadth))
                 THEN << <<"range_mismatch">> >> ELSE << >>]

----------------------------------------------------------------------------
(* model_3d_generator.py: the half-breadth resolver *)

\* sorted(points, key=lambda point: point[0]): a new list, stable in x
RECURSIVE sorted_by_x(_)
sorted_by_x(points) ==
    IF Len(points) <= 1 THEN points
    ELSE LET head == sorted_by_x(SubSeq(points, 1, Len(points) - 1))
             last == points[Len(points)]
             k == Cardinality({ i \in 1 .. Len(head) : head[i][1] <= last[1] })
         IN  SubSeq(head, 1, k) \o << last >> \o SubSeq(head, k + 1, Len(head))

\* list.sort() would leave the caller's list sorted
arg_after_sort_in_place(points) == sorted_by_x(points)

\* sorted() copies: the caller's list is as it was
arg_after_sorted(points) == points

\* binary_search_with_guess of numpy for a key inside [arr[1], arr[n]]:
\* the (1-based) index of the last knot before the first knot above the key
linear_search(key, arr) ==
    LET above == { i \in 2 .. Len(arr) : RLt(key, Int2Rat(arr[i])) }
    IN  IF above = {} THEN Len(arr) ELSE SetMin(above) - 1

\* slope * (x - xj) + fj over the segment (xj, fj), (xk, fk); NaN when an
\* ordinate is NaN
segment_value(x, xj, fj, xk, fk) ==
    IF IsNaN(fj) \/ IsNaN(fk) THEN NaN
    ELSE LET slope == RDiv(RSub(fk, fj), Int2Rat(xk - xj))
         IN  RAdd(RMul(slope, RSub(x, Int2Rat(xj))), fj)

\* what np.interp would return if it continued the boundary segments
np_interp_extrapolating(x, xp, fp) ==
    LET n == Len(xp)
        j0 == IF RLt(Int2Rat(xp[n]), x) THEN n - 1
              ELSE IF RLt(x, Int2Rat(xp[1])) THEN 1
              ELSE linear_search(x, xp)
        j == IF j0 = n THEN n - 1 ELSE j0
    IN  IF Int2Rat(xp[n]) = x \/ xp[j + 1] = xp[j] THEN fp[j0]
        ELSE segment_value(x, xp[j], fp[j], xp[j + 1], fp[j + 1])

\* np.interp(x, xp, fp) for one x, left and right not given: x a rational,
\* xp integers, fp rationals or NaN
np_interp(x, xp, fp) ==
    LET n == Len(xp)
    IN  IF RLt(Int2Rat(xp[n]), x) THEN fp[n]
        ELSE IF RLt(x, Int2Rat(xp[1])) THEN fp[1]
        ELSE LET j == linear_search(x, xp)
             IN  IF j = n THEN fp[j]
                 ELSE IF Int2Rat(xp[j]) = x THEN fp[j]
                 ELSE segment_value(x, xp[j], fp[j], xp[j + 1], fp[j + 1])

\* the two-point closure without its clamps
linear_interp_unclamped(f, x) ==
    RAdd(Int2Rat(f.y1), RMul(f.slope, RSub(x, Int2Rat(f.x1))))

\* the closure linear_interp of the two-point case
linear_interp(f, x) ==
    IF RLe(x, Int2Rat(f.x1)) THEN Int2Rat(f.y1)
    ELSE IF RLe(Int2Rat(f.x2), x) THEN Int2Rat(f.y2)
    ELSE RAdd(Int2Rat(f.y1), RMul(f.slope, RSub(x, Int2Rat(f.x1))))

\* _create_interpolation_function: the closure it returns, as a record of
\* the values the closure captures ("raise": ValueError)
create_interpolation_function(half_breadth) ==
    IF half_breadth = << >> THEN [kind |-> "raise"]
    ELSE LET half_breadth_sorted == sorted_by_x(half_breadth)
             x_half == first_coords(half_breadth_sorted)
             y_half == second_coords(half_breadth_sorted)
         IN  IF Len(x_half) = 1 THEN
                 [kind |-> "constant", constant_y |-> y_half[1]]
             ELSE IF Len(x_half) = 2 THEN
                 [kind |-> "linear",
                  x1 |-> x_half[1], y1 |-> y_half[1],
                  x2 |-> x_half[2], y2 |-> y_half[2],
                  slope |-> IF x_half[2] # x_half[1]
                            THEN Rat(y_half[2] - y_half[1],
                                     x_half[2] - x_half[1])
                            ELSE RZero]
             ELSE
                 [kind |-> "np_interp", x_half |-> x_half, y_half |-> y_half]

\* the numpy branch of the resolver
interp_many(f, x) ==
    np_interp(x, f.x_half, [i \in 1 .. Len(f.y_half) |-> Int2Rat(f.y_half[i])])

\* a call interpolate_y(x) of the closure f, x a rational
interpolate_y(f, x) ==
    CASE f.kind = "constant" -> Int2Rat(f.constant_y)
      [] f.kind = "linear" -> linear_interp(f, x)
      [] f.kind = "np_interp" -> interp_many(f, x)

----------------------------------------------------------------------------
(* model_3d_generator.py: the wireframe lofter *)

\* the two vertices of a station if the sign of y_val were not corrected
station_vertices_unclamped(f, point) ==
    LET y_val == interpolate_y(f, Int2Rat(point[1]))
    IN  << << point[1], y_val, point[2] >>,
           << point[1], RNeg(y_val), point[2] >> >>

\* one pass of the vertex loop: the starboard and the port vertex of the
\* side-profile point (x_side, z_side)
station_vertices(f, point) ==
    LET x_side == point[1]
        z_side == point[2]
        y_0 == interpolate_y(f, Int2Rat(x_side))
        y_val == IF RLt(y_0, RZero) THEN RAbs(y_0) ELSE y_0
    IN  << << x_side, y_val, z_side >>, << x_side, RNeg(y_val), z_side >> >>

\* the warning of one pass of the vertex loop
station_log(f, point) ==
    IF RLt(interpolate_y(f, Int2Rat(point[1])), RZero)
    THEN << <<"negative_half_breadth", point[1]>> >>
    ELSE << >>

\* the edge a station would get if it were numbered from 1
transverse_edge_one_based(i) == << 2 * i + 1, 2 * i + 2 >>

\* edges.append((2 * i, 2 * i + 1)) for station i (from 0)
transverse_edge(i) == << 2 * i, 2 * i + 1 >>

\* the longitudinal loop running over range(n_points)
RECURSIVE longitudinal_edges_to_n(_)
longitudinal_edges_to_n(n_points) ==
    IF n_points < 1 THEN << >>
    ELSE longitudinal_edges_to_n(n_points - 1)
         \o << << 2 * (n_points - 1), 2 * n_points >>,
               << 2 * (n_points - 1) + 1, 2 * n_points + 1 >> >>

\* the longitudinal loop: for i in range(n_points - 1), the starboard edge
\* and then the port edge of stations i, i + 1
RECURSIVE longitudinal_edges(_)
longitudinal_edges(n_points) ==
    IF n_points < 2 THEN << >>
    ELSE longitudinal_edges(n_points - 1)
         \o << << 2 * (n_points - 2), 2 * (n_points - 1) >>,
               << 2 * (n_points - 2) + 1, 2 * (n_points - 1) + 1 >> >>

\* the dataclass default of model_version
model_version_default(data) == 1

\* model_version = two_d_data.line_version
model_version_of(data) == data.line_version

\* the vertex loop over side_profile[1 .. n]: vertices, transverse edges and
\* warnings in the order they are appended
RECURSIVE vertex_loop(_, _, _)
vertex_loop(f, side_profile, n) ==
    IF n = 0 THEN [vertices |-> << >>, edges |-> << >>, log |-> << >>]
    ELSE LET before == vertex_loop(f, side_profile, n - 1)
         IN  [vertices |-> before.vertices
                           \o station_vertices(f, side_profile[n]),
              edges |-> Append(before.edges, transverse_edge(n - 1)),
              log |-> before.log \o station_log(f, side_profile[n])]

NoWireframe ==
    [status |-> "none", error |-> "", vertices |-> << >>, edges |-> << >>,
     model_version |-> 0]

\* generate_3d_wireframe(params, two_d_data): what the call returns or
\* raises (ret), what it logs (log) and the state of its argument after the
\* call (arg).  params is not read.
generate_3d_wireframe(data) ==
    LET v == validate_input_data(data)
        after == [data EXCEPT !.half_breadth = arg_after_sorted(@)]
    IN  IF v.error # "" THEN
            [ret |-> [NoWireframe EXCEPT !.status = "raised",
                                         !.error = v.error],
             log |-> v.log, arg |-> data]
        ELSE LET interpolate == create_interpolation_function(data.half_breadth)
                 n_points == Len(data.side_profile)
                 loop == vertex_loop(interpolate, data.side_profile, n_points)
             IN  [ret |-> [status |-> "returned", error |-> "",
                           vertices |-> loop.vertices,
                           edges |-> loop.edges \o longitudinal_edges(n_points),
                           model_version |-> model_version_of(data)],
                  log |-> v.log \o loop.log,
                  arg |-> after]

----------------------------------------------------------------------------
(* line_interaction.py: the curve reconstructor.                           *)
(* A control point is <<x, y>>, x an integer and y a rational or NaN; the  *)
(* unit of x is the tolerance 1e-10 of the source, so that abscissas 1     *)
(* apart are within the tolerance and abscissas 2 apart are not.  A point  *)
(* of a returned curve is a pair of rationals; Smooth stands for the value *)
(* of a fitted spline between two knots, which is not computed.            *)

\* the tolerance 1e-10 of the deduplication and of the closure test
Eps == 1
\* the number of samples of a reconstructed curve
NumSamples == 100
\* the samples per segment of the closed linear fallback
segment_points == 20

Smooth == << 1, 0 >>

\* a list of control points as a list of curve points
as_curve(points) ==
    [i \in 1 .. Len(points) |-> << Int2Rat(points[i][1]), points[i][2] >>]

\* np.linspace(start, stop, num)[i], i from 0, num >= 2
linspace(start, stop, num, i) ==
    IF i = num - 1 THEN Int2Rat(stop)
    ELSE Rat(start * (num - 1) + i * (stop - start), num - 1)

\* np.where(np.diff(x_sorted) > 1e-10)[0], as indices from 1
unique_indices(x_sorted) ==
    { i \in 1 .. Len(x_sorted) - 1 : x_sorted[i + 1] - x_sorted[i] > Eps }

\* x_sorted[unique_indices] for an ascending list of the index set
RECURSIVE take(_, _)
take(values, indices) ==
    IF indices = {} THEN << >>
    ELSE LET m == SetMax(indices)
         IN  Append(take(values, indices \ {m}), values[m])

\* CubicSpline(x, y, bc_type='natural') raises ValueError unless y is finite
\* (x is finite and strictly increasing here)
natural_spline_raises(x_unique, y_unique) ==
    \E i \in 1 .. Len(y_unique) : IsNaN(y_unique[i])

\* cs(x) of a fitted natural spline: the knot's ordinate at a knot, the
\* straight line for two knots
natural_spline_value(x_unique, y_unique, x) ==
    LET at == { k \in 1 .. Len(x_unique) : Int2Rat(x_unique[k]) = x }
    IN  IF at # {} THEN y_unique[CHOOSE k \in at : TRUE]
        ELSE IF Len(x_unique) = 2
        THEN segment_value(x, x_unique[1], y_unique[1],
                           x_unique[2], y_unique[2])
        ELSE Smooth

\* _linear_interpolation(points)
linear_interpolation(points) ==
    IF Len(points) < 2 THEN as_curve(points)
    ELSE LET x_control == first_coords(points)
             y_control == second_coords(points)
             lo == SetMin(Range(x_control))
             hi == SetMax(Range(x_control))
         IN  [i \in 1 .. NumSamples |->
                 LET x == linspace(lo, hi, NumSamples, i - 1)
                 IN  << x, np_interp(x, x_control, y_control) >>]

\* a try block without its except clause: the exception reaches the caller
fit_failure_propagated(attempt, fallback) ==
    IF attempt.raised THEN [status |-> "raised", points |-> << >>]
    ELSE [status |-> "returned", points |-> attempt.points]

\* try: ... except Exception: return <fallback>
fit_failure_absorbed(attempt, fallback) ==
    IF attempt.raised THEN [status |-> "returned", points |-> fallback]
    ELSE [status |-> "returned", points |-> attempt.points]

\* _generate_open_curve(points), len(points) >= 2
generate_open_curve(points) ==
    LET sorted_points == sorted_by_x(points)
        x_sorted == first_coords(sorted_points)
        y_sorted == second_coords(sorted_points)
        idx == unique_indices(x_sorted)
        x_unique == Append(take(x_sorted, idx), x_sorted[Len(x_sorted)])
        y_unique == Append(take(y_sorted, idx), y_sorted[Len(y_sorted)])
    IN  IF Len(x_unique) < 2 THEN
            [status |-> "returned", points |-> as_curve(sorted_points)]
        ELSE LET lo == SetMin(Range(x_unique))
                 hi == SetMax(Range(x_unique))
                 attempt ==
                    IF natural_spline_raises(x_unique, y_unique)
                    THEN [raised |-> TRUE, points |-> << >>]
                    ELSE [raised |-> FALSE,
                          points |->
                            [i \in 1 .. NumSamples |->
                               LET x == linspace(lo, hi, NumSamples, i - 1)
                               IN  << x, natural_spline_value(x_unique,
                                                              y_unique, x) >>]]
             IN  fit_failure_absorbed(attempt, linear_interpolation(points))

\* abs(a - b) > 1e-10 for floats a, b: False when one of them is NaN
differ(a, b) ==
    /\ ~ IsNaN(a)
    /\ ~ IsNaN(b)
    /\ RLt(Int2Rat(Eps), RAbs(RSub(a, b)))

\* the closure step if it asked for both coordinates to differ
closed_points_both(points) ==
    IF /\ differ(Int2Rat(points[1][1]), Int2Rat(points[Len(points)][1]))
       /\ differ(points[1][2], points[Len(points)][2])
    THEN Append(points, points[1])
    ELSE points

\* the closure step: the first point is appended unless the last point is
\* within the tolerance of it
closed_points(points) ==
    IF \/ differ(Int2Rat(points[1][1]), Int2Rat(points[Len(points)][1]))
       \/ differ(points[1][2], points[Len(points)][2])
    THEN Append(points, points[1])
    ELSE points

\* the closed fallback with t = j / (segment_points - 1), each segment
\* running up to its end point
linear_interpolation_closed_inclusive(points) ==
    IF Len(points) < 3 THEN as_curve(points)
    ELSE LET pts == closed_points(points)
         IN  [n \in 1 .. segment_points * (Len(pts) - 1) |->
                 LET i == ((n - 1) \div segment_points) + 1
                     j == (n - 1) % segment_points
                     t == Rat(j, segment_points - 1)
                     x1 == Int2Rat(pts[i][1])
                     x2 == Int2Rat(pts[i + 1][1])
                     y1 == pts[i][2]
                     y2 == pts[i + 1][2]
                 IN  << RAdd(x1, RMul(t, RSub(x2, x1))),
                        IF IsNaN(y1) \/ IsNaN(y2) THEN NaN
                        ELSE RAdd(y1, RMul(t, RSub(y2, y1))) >>]

\* _linear_interpolation_closed(points)
linear_interpolation_closed(points) ==
    IF Len(points) < 3 THEN as_curve(points)
    ELSE LET pts == closed_points(points)
         IN  [n \in 1 .. segment_points * (Len(pts) - 1) |->
                 LET i == ((n - 1) \div segment_points) + 1
                     j == (n - 1) % segment_points
                     t == Rat(j, segment_points)
                     x1 == Int2Rat(pts[i][1])
                     x2 == Int2Rat(pts[i + 1][1])
                     y1 == pts[i][2]
                     y2 == pts[i + 1][2]
                 IN  << RAdd(x1, RMul(t, RSub(x2, x1))),
                        IF IsNaN(y1) \/ IsNaN(y2) THEN NaN
                        ELSE RAdd(y1, RMul(t, RSub(y2, y1))) >>]

\* CubicSpline(t, v, bc_type='periodic') raises ValueError unless v is finite
\* and its first and last value are equal
periodic_spline_raises(v) ==
    \/ \E i \in 1 .. Len(v) : IsNaN(v[i])
    \/ v[1] # v[Len(v)]

\* cs(t_curve[j]) of a periodic spline fitted at t = linspace(0, 1, len(v)):
\* sample j of NumSamples (from 0) is knot k when j / (NumSamples - 1) equals
\* k / (len(v) - 1)
periodic_spline_value(v, j) ==
    LET at == { k \in 0 .. Len(v) - 1 :
                   j * (Len(v) - 1) = k * (NumSamples - 1) }
    IN  IF at # {} THEN v[(CHOOSE k \in at : TRUE) + 1] ELSE Smooth

closed_too_short_below_two(points) == Len(points) < 2
\* if len(points) < 3: return points
closed_too_short(points) == Len(points) < 3

\* _generate_closed_curve(points)
generate_closed_curve(points) ==
    IF closed_too_short(points)
    THEN [status |-> "returned", points |-> as_curve(points)]
    ELSE LET pts == closed_points(points)
             x_control == [i \in 1 .. Len(pts) |-> Int2Rat(pts[i][1])]
             y_control == second_coords(pts)
             attempt ==
                IF \/ periodic_spline_raises(x_control)
                   \/ periodic_spline_raises(y_control)
                THEN [raised |-> TRUE, points |-> << >>]
                ELSE [raised |-> FALSE,
                      points |->
                        [i \in 1 .. NumSamples |->
                           << periodic_spline_value(x_control, i - 1),
                              periodic_spline_value(y_control, i - 1) >>]]
         IN  fit_failure_absorbed(attempt, linear_interpolation_closed(pts))

\* generate_smooth_curve(points, is_closed)
generate_smooth_curve(points, is_closed) ==
    IF Len(points) < 2 THEN [status |-> "returned", points |-> as_curve(points)]
    ELSE IF is_closed THEN generate_closed_curve(points)
    ELSE generate_open_curve(points)

----------------------------------------------------------------------------
(* State: the 2D line data, the result of the last lofting call and what it
   logged, the last resolver call, and the last curve reconstruction.      *)

NoProbe == [status |-> "none", x |-> 0, y |-> RZero]
NoCurveIn == [points |-> << >>, is_closed |-> FALSE]
NoCurveOut == [status |-> "none", points |-> << >>]
\* an optional value of the source (None or a value) is << >> or <<v>>
None == << >>
Some(v) == << v >>
NoEditor == [dragging |-> FALSE, dragged_idx |-> None,
             dragged_line_type |-> None, dragged_cross_section_x |-> None,
             current_cross_section_x |-> None,
             control_circles |-> [side_profile |-> << >>,
                                  half_breadth |-> << >>,
                                  cross_section |-> << >>],
             interaction_events |-> << >>]
NoEvent == [name |-> "none", button |-> 0, inaxes |-> None,
            xdata |-> None, ydata |-> None]
NoUpdateCall == [status |-> "none"]
NoParamCheck == [status |-> "none"]
NoHullTest == [status |-> "none"]

SideProfiles == SeqsUpTo(SidePoints, MaxSide)
LoftHalfBreadths == SeqsUpTo(HalfPoints, MaxHalf)
ResolverHalfBreadths == SeqsUpTo(HalfXs \X HalfYs, MaxHalf)

\* the default side profile of the editor, shortened
DefaultSideProfile == << <<0, 0>>, <<2, 2>>, <<4, 0>> >>

(* The lofter: any 2D line data, lofted once *)
InitLoft ==
    /\ two_d_data \in [side_profile : SideProfiles,
                       half_breadth : LoftHalfBreadths,
                       cross_sections : {SampleCrossSections},
                       line_version : LineVersions]
    /\ wireframe = NoWireframe
    /\ log = << >>
    /\ probe = NoProbe
    /\ curve_in = NoCurveIn
    /\ curve_out = NoCurveOut
    /\ editor = NoEditor
    /\ last_event = NoEvent
    /\ update_call = NoUpdateCall
    /\ param_check = NoParamCheck
    /\ lofted = << >>
    /\ hull_test = NoHullTest

GenerateWireframe ==
    /\ wireframe.status = "none"
    /\ LET call == generate_3d_wireframe(two_d_data)
       IN  /\ wireframe' = call.ret
           /\ log' = call.log
           /\ two_d_data' = call.arg
    /\ UNCHANGED <<probe, curve_in, curve_out,
                 editor, last_event, update_call, param_check, lofted, hull_test>>

NextLoft == GenerateWireframe

SpecLoft == InitLoft /\ [][NextLoft]_vars

(* The resolver: any half-breadth curve, asked for one abscissa *)
InitResolver ==
    /\ two_d_data \in [side_profile : {DefaultSideProfile},
                       half_breadth : ResolverHalfBreadths \ {<< >>},
                       cross_sections : {SampleCrossSections},
                       line_version : {1}]
    /\ wireframe = NoWireframe
    /\ log = << >>
    /\ probe = NoProbe
    /\ curve_in = NoCurveIn
    /\ curve_out = NoCurveOut
    /\ editor = NoEditor
    /\ last_event = NoEvent
    /\ update_call = NoUpdateCall
    /\ param_check = NoParamCheck
    /\ lofted = << >>
    /\ hull_test = NoHullTest

Resolve ==
    /\ probe.status = "none"
    /\ \E x \in QueryXs :
         LET f == create_interpolation_function(two_d_data.half_breadth)
         IN  probe' = [status |-> "returned", x |-> x,
                       y |-> interpolate_y(f, Int2Rat(x))]
    /\ UNCHANGED <<two_d_data, wireframe, log, curve_in, curve_out,
                 editor, last_event, update_call, param_check, lofted, hull_test>>

NextResolver == Resolve

SpecResolver == InitResolver /\ [][NextResolver]_vars

(* The curve reconstructor: any list of control points, reconstructed once *)
InitCurve ==
    /\ two_d_data = [side_profile |-> DefaultSideProfile,
                     half_breadth |-> << >>,
                     cross_sections |-> SampleCrossSections,
                     line_version |-> 1]
    /\ wireframe = NoWireframe
    /\ log = << >>
    /\ probe = NoProbe
    /\ curve_in \in [points : SeqsUpTo(CurvePoints, MaxPts),
                     is_closed : BOOLEAN]
    /\ curve_out = NoCurveOut
    /\ editor = NoEditor
    /\ last_event = NoEvent
    /\ update_call = NoUpdateCall
    /\ param_check = NoParamCheck
    /\ lofted = << >>
    /\ hull_test = NoHullTest

GenerateSmoothCurve ==
    /\ curve_out.status = "none"
    /\ curve_out' = generate_smooth_curve(curve_in.points, curve_in.is_closed)
    /\ UNCHANGED <<two_d_data, wireframe, log, probe, curve_in,
                 editor, last_event, update_call, param_check, lofted, hull_test>>

NextCurve == GenerateSmoothCurve

SpecCurve == InitCurve /\ [][NextCurve]_vars

(* Closed outlines: any outline of control points, reconstructed once *)
InitClosed ==
    /\ two_d_data = [side_profile |-> DefaultSideProfile,
                     half_breadth |-> << >>,
                     cross_sections |-> SampleCrossSections,
                     line_version |-> 1]
    /\ wireframe = NoWireframe
    /\ log = << >>
    /\ probe = NoProbe
    /\ curve_in \in [points : SeqsUpTo(ClosedPoints, MaxClosed),
                     is_closed : {TRUE}]
    /\ curve_out = NoCurveOut
    /\ editor = NoEditor
    /\ last_event = NoEvent
    /\ update_call = NoUpdateCall
    /\ param_check = NoParamCheck
    /\ lofted = << >>
    /\ hull_test = NoHullTest

NextClosed == GenerateSmoothCurve

SpecClosed == InitClosed /\ [][NextClosed]_vars

----------------------------------------------------------------------------
(* The interactive editor of line_interaction.py.                          *)
(* Editor coordinates are integers in hundredths of the drawing unit, so   *)
(* that the pick radius and the axis limits of the source are whole        *)
(* numbers: 0.06 is 6, 1.5 * 0.06 is 9, the limit -0.5 is -50.  The        *)
(* smooth curves shown on screen are display only and are not part of the  *)
(* state; generate_smooth_curve never raises, so redrawing them cannot     *)
(* interrupt a handler.                                                    *)

MaxEvents == 3

control_point_radius == 6
side_x_limits == <<-100, 1300>>
side_y_limits == <<-50, 400>>
half_x_limits == <<-100, 1300>>
half_y_limits == <<-50, 300>>
cross_x_limits == <<-300, 300>>
cross_y_limits == <<-50, 400>>

line_types == <<"side_profile", "half_breadth", "cross_section">>

default_side_profile ==
    << <<0, 0>>, <<150, 100>>, <<300, 180>>, <<400, 220>>, <<600, 250>>,
       <<800, 220>>, <<900, 180>>, <<1050, 100>>, <<1200, 0>> >>
default_half_breadth ==
    << <<0, 50>>, <<200, 100>>, <<400, 180>>, <<600, 220>>, <<800, 200>>,
       <<1000, 150>>, <<1200, 80>> >>
default_cross_sections ==
    (300 :> << <<0, 0>>, <<100, 80>>, <<150, 150>>, <<100, 220>>, <<0, 250>>,
               <<-100, 220>>, <<-150, 150>>, <<-100, 80>>, <<0, 0>> >>)
    @@ (600 :> << <<0, 0>>, <<150, 60>>, <<200, 180>>, <<150, 280>>,
                  <<0, 300>>, <<-150, 280>>, <<-200, 180>>, <<-150, 60>>,
                  <<0, 0>> >>)
    @@ (900 :> << <<0, 0>>, <<120, 40>>, <<180, 120>>, <<120, 200>>,
                  <<0, 220>>, <<-120, 200>>, <<-180, 120>>, <<-120, 40>>,
                  <<0, 0>> >>)

\* the data handed to the constructor: nothing at all, or a short hull
EmptyHull == [side_profile |-> << >>, half_breadth |-> << >>,
              cross_sections |-> [x \in {} |-> << >>], line_version |-> 1]
ShortHull == [side_profile |-> << <<0, 0>>, <<600, 250>>, <<1200, 0>> >>,
              half_breadth |-> << <<0, 50>>, <<600, 220>> >>,
              cross_sections |->
                  (600 :> << <<0, 0>>, <<150, 150>>, <<0, 250>> >>)
                  @@ (900 :> << <<0, 3>>, <<100, 100>> >>),
              line_version |-> 1]
EditorInputs == {EmptyHull, ShortHull}

\* what the pointer can report: the axes under it and its data coordinates
Pointers ==
    { [inaxes |-> Some("cross"), xdata |-> Some(0), ydata |-> Some(3)],
      [inaxes |-> Some("side"), xdata |-> Some(600), ydata |-> Some(250)],
      [inaxes |-> Some("cross"), xdata |-> Some(150), ydata |-> Some(150)],
      [inaxes |-> Some("half"), xdata |-> Some(0), ydata |-> Some(50)],
      [inaxes |-> Some("side"), xdata |-> Some(1400), ydata |-> Some(450)],
      [inaxes |-> None, xdata |-> None, ydata |-> None] }
Buttons == {1, 3}
MouseEvent(name, button, pointer) ==
    [name |-> name, button |-> button, inaxes |-> pointer.inaxes,
     xdata |-> pointer.xdata, ydata |-> pointer.ydata]

\* list(cross_sections.keys())[0]; the keys were inserted in ascending order
first_key(cross_sections) == SetMin(DOMAIN cross_sections)

initialize_curves(data) ==
    [side_profile |-> IF data.side_profile = << >>
                      THEN default_side_profile ELSE data.side_profile,
     half_breadth |-> IF data.half_breadth = << >>
                      THEN default_half_breadth ELSE data.half_breadth,
     cross_sections |-> IF DOMAIN data.cross_sections = {}
                        THEN default_cross_sections ELSE data.cross_sections,
     line_version |-> data.line_version]

\* the centres of the circles drawn for the control points
draw_all_curves(data, current) ==
    [side_profile |-> data.side_profile,
     half_breadth |-> data.half_breadth,
     cross_section |-> IF current = None THEN << >>
                       ELSE IF current[1] \notin DOMAIN data.cross_sections
                       THEN << >>
                       ELSE data.cross_sections[current[1]]]

new_editor(data) ==
    LET current == IF DOMAIN data.cross_sections = {} THEN None
                   ELSE Some(first_key(data.cross_sections))
    IN  [dragging |-> FALSE, dragged_idx |-> None,
         dragged_line_type |-> None, dragged_cross_section_x |-> None,
         current_cross_section_x |-> current,
         control_circles |-> draw_all_curves(data, current),
         interaction_events |-> << >>]

InteractionEvent(event_type, line_type, target_point_idx, new_coords, cross_section_x) ==
    [event_type |-> event_type, line_type |-> line_type,
     target_point_idx |-> target_point_idx, new_coords |-> new_coords,
     cross_section_x |-> cross_section_x]

\* distance <= control_point_radius * 1.5, squared and cleared of fractions
within_pick_radius(x, y, center) ==
    4 * ((x - center[1]) * (x - center[1]) + (y - center[2]) * (y - center[2]))
        <= 9 * control_point_radius * control_point_radius

\* the circles under the pointer, as <<number of the line type, position>>
hits(circles, x, y) ==
    UNION { { <<t, i>> : i \in { k \in 1 .. Len(circles[line_types[t]]) :
                within_pick_radius(x, y, circles[line_types[t]][k]) } } :
            t \in 1 .. Len(line_types) }

last_hit(circles, x, y) ==
    CHOOSE h \in hits(circles, x, y) : \A g \in hits(circles, x, y) :
        g[1] < h[1] \/ (g[1] = h[1] /\ g[2] <= h[2])
\* the loops return at the first circle that is close enough
first_hit(circles, x, y) ==
    CHOOSE h \in hits(circles, x, y) : \A g \in hits(circles, x, y) :
        h[1] < g[1] \/ (h[1] = g[1] /\ h[2] <= g[2])

on_press(ed, event) ==
    IF event.button # 1 \/ event.inaxes = None THEN ed
    ELSE IF hits(ed.control_circles, event.xdata[1], event.ydata[1]) = {}
    THEN ed
    ELSE
        LET h == first_hit(ed.control_circles, event.xdata[1], event.ydata[1])
            line_type == line_types[h[1]]
            i == h[2] - 1
            center == ed.control_circles[line_type][h[2]]
            cross_x == IF line_type = "cross_section"
                       THEN ed.current_cross_section_x
                       ELSE ed.dragged_cross_section_x
        IN  [ed EXCEPT !.dragging = TRUE,
                       !.dragged_idx = Some(i),
                       !.dragged_line_type = Some(line_type),
                       !.dragged_cross_section_x = cross_x,
                       !.interaction_events = Append(@,
                           InteractionEvent("drag_start", line_type, i,
                                            center, cross_x))]

clamp_not(limits, v) == v
\* max(limits[0], min(limits[1], v))
clamp(limits, v) ==
    LET m == IF limits[2] < v THEN limits[2] ELSE v
    IN  IF limits[1] > m THEN limits[1] ELSE m

x_limits(line_type) ==
    IF line_type = "side_profile" THEN side_x_limits
    ELSE IF line_type = "half_breadth" THEN half_x_limits
    ELSE cross_x_limits
y_limits(line_type) ==
    IF line_type = "side_profile" THEN side_y_limits
    ELSE IF line_type = "half_breadth" THEN half_y_limits
    ELSE cross_y_limits

\* the list of control points a handler works on
dragged_points(ed, data) ==
    IF ed.dragged_line_type = Some("side_profile") THEN data.side_profile
    ELSE IF ed.dragged_line_type = Some("half_breadth") THEN data.half_breadth
    ELSE IF ed.dragged_cross_section_x = None THEN << >>
    ELSE IF ed.dragged_cross_section_x[1] \notin DOMAIN data.cross_sections
    THEN << >>
    ELSE data.cross_sections[ed.dragged_cross_section_x[1]]

append_point(points, idx, p) == Append(points, p)
\* points[idx] = p
set_point(points, idx, p) == [points EXCEPT ![idx + 1] = p]

with_dragged_points_all_stations(ed, data, points) ==
    IF ed.dragged_line_type = Some("side_profile")
    THEN [data EXCEPT !.side_profile = points]
    ELSE IF ed.dragged_line_type = Some("half_breadth")
    THEN [data EXCEPT !.half_breadth = points]
    ELSE [data EXCEPT !.cross_sections =
              [x \in DOMAIN data.cross_sections |-> points]]
\* the assignment reaches the list held by the hull data
with_dragged_points(ed, data, points) ==
    IF ed.dragged_line_type = Some("side_profile")
    THEN [data EXCEPT !.side_profile = points]
    ELSE IF ed.dragged_line_type = Some("half_breadth")
    THEN [data EXCEPT !.half_breadth = points]
    ELSE [data EXCEPT !.cross_sections[ed.dragged_cross_section_x[1]] = points]

on_drag(ed, data, event) ==
    IF ~ ed.dragging \/ ed.dragged_idx = None \/ event.inaxes = None
    THEN [editor |-> ed, data |-> data]
    ELSE IF event.xdata = None \/ event.ydata = None
    THEN [editor |-> ed, data |-> data]
    ELSE IF ed.dragged_line_type = None
    THEN [editor |-> ed, data |-> data]
    ELSE
        LET line_type == ed.dragged_line_type[1]
            idx == ed.dragged_idx[1]
            new_x == clamp(x_limits(line_type), event.xdata[1])
            new_y == clamp(y_limits(line_type), event.ydata[1])
            points == dragged_points(ed, data)
        IN  IF idx < Len(points)
            THEN [editor |->
                    [ed EXCEPT
                       !.control_circles[line_type][idx + 1] = <<new_x, new_y>>,
                       !.interaction_events = Append(@,
                           InteractionEvent("dragging", line_type, idx,
                               <<new_x, new_y>>, ed.dragged_cross_section_x))],
                  data |-> with_dragged_points(ed, data,
                               set_point(points, idx, <<new_x, new_y>>))]
            ELSE [editor |-> ed, data |-> data]

released_version_unchanged(line_version) == line_version
released_version_twice(line_version) == line_version + 2
\* line_version += 1
released_version(line_version) == line_version + 1

release_commits_inside(ed, event) ==
    /\ ed.dragging /\ ed.dragged_idx # None /\ ed.dragged_line_type # None
    /\ event.inaxes # None
\* the condition under which a release ends a drag
release_commits(ed, event) ==
    ed.dragging /\ ed.dragged_idx # None /\ ed.dragged_line_type # None

reset_drag_state_skipped(ed) == ed
\* the four assignments that end on_release
reset_drag_state(ed) ==
    [ed EXCEPT !.dragging = FALSE,
               !.dragged_idx = None,
               !.dragged_line_type = None,
               !.dragged_cross_section_x = None]

on_release(ed, data, event) ==
    LET points == dragged_points(ed, data)
        ended == /\ release_commits(ed, event)
                 /\ ed.dragged_idx[1] < Len(points)
        idle == reset_drag_state(ed)
    IN  IF ended
        THEN [editor |->
                [idle EXCEPT !.interaction_events = Append(@,
                    InteractionEvent("drag_end", ed.dragged_line_type[1],
                        ed.dragged_idx[1], points[ed.dragged_idx[1] + 1],
                        ed.dragged_cross_section_x))],
              data |-> [data EXCEPT
                          !.line_version = released_version(@)]]
        ELSE [editor |-> idle, data |-> data]

(* The editor: built on some hull data, then driven by mouse events *)
InitEditor ==
    /\ \E data \in EditorInputs :
         /\ two_d_data = initialize_curves(data)
         /\ editor = new_editor(initialize_curves(data))
    /\ wireframe = NoWireframe
    /\ log = << >>
    /\ probe = NoProbe
    /\ curve_in = NoCurveIn
    /\ curve_out = NoCurveOut
    /\ last_event = NoEvent
    /\ update_call = NoUpdateCall
    /\ param_check = NoParamCheck
    /\ lofted = << >>
    /\ hull_test = NoHullTest

EditorFrame ==
    UNCHANGED <<wireframe, log, probe, curve_in, curve_out,
                update_call, param_check, lofted, hull_test>>

OnPress ==
    /\ \E button \in Buttons, pointer \in Pointers :
         LET event == MouseEvent("button_press_event", button, pointer)
         IN  /\ last_event' = event
             /\ editor' = on_press(editor, event)
    /\ Len(editor'.interaction_events) <= MaxEvents
    /\ UNCHANGED two_d_data
    /\ EditorFrame

OnDrag ==
    /\ \E pointer \in Pointers :
         LET event == MouseEvent("motion_notify_event", 1, pointer)
             after == on_drag(editor, two_d_data, event)
         IN  /\ last_event' = event
             /\ editor' = after.editor
             /\ two_d_data' = after.data
    /\ Len(editor'.interaction_events) <= MaxEvents
    /\ EditorFrame

OnRelease ==
    /\ \E pointer \in Pointers :
         LET event == MouseEvent("button_release_event", 1, pointer)
             after == on_release(editor, two_d_data, event)
         IN  /\ last_event' = event
             /\ editor' = after.editor
             /\ two_d_data' = after.data
    /\ Len(editor'.interaction_events) <= MaxEvents
    /\ EditorFrame

NextEditor == OnPress \/ OnDrag \/ OnRelease

SpecEditor == InitEditor /\ [][NextEditor]_vars

----------------------------------------------------------------------------
(* update_2d_lines of line_2d_generator.py.  The three .copy() calls are    *)
(* shallow: the new side_profile and half_breadth are new lists, the new   *)
(* cross_sections is a new dict whose values are the lists of the old one. *)

UpdateEvents ==
    { InteractionEvent("drag_end", line_type, idx, new_coords, cross_x) :
        line_type \in Range(line_types), idx \in 0 .. 3,
        new_coords \in {<<700, 100>>, <<-50, 20>>},
        cross_x \in {None, Some(300), Some(600)} }

\* an index or key the old data does not have raises IndexError / KeyError
update_raises(old_2d_data, event) ==
    IF event.line_type = "side_profile"
    THEN event.target_point_idx >= Len(old_2d_data.side_profile)
    ELSE IF event.line_type = "half_breadth"
    THEN event.target_point_idx >= Len(old_2d_data.half_breadth)
    ELSE IF event.line_type = "cross_section" /\ event.cross_section_x # None
    THEN \/ event.cross_section_x[1] \notin DOMAIN old_2d_data.cross_sections
         \/ event.target_point_idx
              >= Len(old_2d_data.cross_sections[event.cross_section_x[1]])
    ELSE FALSE

\* the dict of the result: the same lists as in the old dict, one assigned to
updated_cross_sections(old_2d_data, event) ==
    IF event.line_type = "cross_section" /\ event.cross_section_x # None
    THEN [old_2d_data.cross_sections EXCEPT ![event.cross_section_x[1]] =
              set_point(@, event.target_point_idx, event.new_coords)]
    ELSE old_2d_data.cross_sections

\* old_2d_data as the caller sees it after the call: its own lists are
\* untouched, the lists of its dict are the ones the call assigned to
old_after_update(old_2d_data, event) ==
    IF update_raises(old_2d_data, event) THEN old_2d_data
    ELSE [old_2d_data EXCEPT
            !.cross_sections = updated_cross_sections(old_2d_data, event)]

update_2d_lines(old_2d_data, event) ==
    IF update_raises(old_2d_data, event)
    THEN [status |-> "raised", ret |-> None]
    ELSE [status |-> "returned",
          ret |-> Some(
            [side_profile |->
                IF event.line_type = "side_profile"
                THEN set_point(old_2d_data.side_profile,
                               event.target_point_idx, event.new_coords)
                ELSE old_2d_data.side_profile,
             half_breadth |->
                IF event.line_type = "half_breadth"
                THEN set_point(old_2d_data.half_breadth,
                               event.target_point_idx, event.new_coords)
                ELSE old_2d_data.half_breadth,
             cross_sections |-> updated_cross_sections(old_2d_data, event),
             line_version |-> old_2d_data.line_version + 1])]

(* One call of update_2d_lines on some hull data with some event *)
InitUpdate ==
    /\ two_d_data \in {ShortHull, initialize_curves(EmptyHull)}
    /\ wireframe = NoWireframe
    /\ log = << >>
    /\ probe = NoProbe
    /\ curve_in = NoCurveIn
    /\ curve_out = NoCurveOut
    /\ editor = NoEditor
    /\ last_event = NoEvent
    /\ update_call = NoUpdateCall
    /\ param_check = NoParamCheck
    /\ lofted = << >>
    /\ hull_test = NoHullTest

\* update_call keeps the event, the old data as it was before the call and
\* what the call returned
Update2DLines ==
    /\ update_call.status = "none"
    /\ \E event \in UpdateEvents :
         LET call == update_2d_lines(two_d_data, event)
         IN  /\ update_call' = [status |-> call.status, event |-> event,
                                before |-> two_d_data, ret |-> call.ret]
             /\ two_d_data' = old_after_update(two_d_data, event)
    /\ UNCHANGED <<wireframe, log, probe, curve_in, curve_out,
                   editor, last_event, param_check, lofted, hull_test>>

NextUpdate == Update2DLines

SpecUpdate == InitUpdate /\ [][NextUpdate]_vars

----------------------------------------------------------------------------
(* The parameter validators: check_hull_params of param_check_store.py,    *)
(* HullParamValidator.validate of hull_param_validator_storage.py and      *)
(* check_hull_params of main.py, which receives the texts of the input     *)
(* fields and converts them with float().                                  *)

MaxParam == 3

ParamValues == 0 .. MaxParam
ParamSets ==
    [Lpp : ParamValues, B : ParamValues, D : ParamValues, T : ParamValues,
     Delta : {0, 1},
     Loa : {None} \cup { Some(v) : v \in ParamValues }]

\* param_check_store.py: the first rule that fails sets the error message
check_hull_params_store(raw_params) ==
    LET error ==
          IF raw_params.Lpp <= raw_params.B THEN "Lpp"
          ELSE IF raw_params.B <= raw_params.T THEN "B"
          ELSE IF raw_params.D <= raw_params.T THEN "D"
          ELSE IF raw_params.Delta <= 0 THEN "Delta"
          ELSE IF raw_params.Loa # None /\ raw_params.Loa[1] < raw_params.Lpp
          THEN "Loa"
          ELSE ""
    IN  [is_valid |-> error = "",
         valid_params |-> IF error = "" THEN Some(raw_params) ELSE None]

\* the HullBasicParams of hull_param_validator_storage.py has no Loa
without_Loa(params) == [params EXCEPT !.Loa = None]

\* hull_param_validator_storage.py: every failed rule adds an error
validate(params) ==
    LET fails(rule) ==
          CASE rule = 1 -> params.Lpp <= 0
            [] rule = 2 -> params.B <= 0
            [] rule = 3 -> params.D <= 0
            [] rule = 4 -> params.T <= 0
            [] rule = 5 -> params.Delta <= 0
            [] rule = 6 -> params.Lpp <= params.B
            [] rule = 7 -> params.T >= params.D
        errors == { rule \in 1 .. 7 : fails(rule) }
    IN  [is_valid |-> errors = {},
         valid_params |-> IF errors = {} THEN Some(params) ELSE None]

\* the text of an input field: a decimal number, nothing, or something else
NumberText(v) == [text |-> "number", value |-> v]
EmptyText == [text |-> "empty", value |-> 0]
WordText == [text |-> "word", value |-> 0]
\* float(text) raises ValueError unless the text is a number
float_raises(field) == field.text # "number"

\* the texts the window hands over for a parameter set, and two slips
typed(params) ==
    [Lpp |-> NumberText(params.Lpp), B |-> NumberText(params.B),
     D |-> NumberText(params.D), T |-> NumberText(params.T),
     Delta |-> NumberText(params.Delta),
     Loa |-> IF params.Loa = None THEN EmptyText
             ELSE NumberText(params.Loa[1])]
RawInputs(params) ==
    { typed(params),
      [typed(params) EXCEPT !.T = EmptyText],
      [typed(params) EXCEPT !.Loa = WordText] }

\* main.py: blank required fields, then conversion, then every rule
check_hull_params_main(params) ==
    LET required == {params.Lpp, params.B, params.D, params.T, params.Delta}
        blank == \E field \in required : field.text = "empty"
        loa_given == params.Loa.text # "empty"
        value_error == \/ \E field \in required : float_raises(field)
                       \/ loa_given /\ float_raises(params.Loa)
        lpp == params.Lpp.value
        b == params.B.value
        d == params.D.value
        t == params.T.value
        delta == params.Delta.value
        loa == params.Loa.value
        rules == /\ ~ (lpp <= 0) /\ ~ (b <= 0) /\ ~ (d <= 0) /\ ~ (t <= 0)
                 /\ ~ (delta <= 0)
                 /\ ~ (b >= lpp) /\ ~ (d >= lpp) /\ ~ (t >= d)
                 /\ loa_given => (~ (loa <= 0) /\ ~ (loa < lpp))
        is_valid == ~ blank /\ ~ value_error /\ rules
    IN  [is_valid |-> is_valid,
         valid_params |-> IF is_valid THEN Some(params) ELSE None]

\* the numbers a set of texts stands for
numbers_of(raw) ==
    [Lpp |-> raw.Lpp.value, B |-> raw.B.value, D |-> raw.D.value,
     T |-> raw.T.value, Delta |-> raw.Delta.value,
     Loa |-> IF raw.Loa.text = "number" THEN Some(raw.Loa.value) ELSE None]

(* One parameter set, handed to one of the validators *)
InitParams ==
    /\ two_d_data = EmptyHull
    /\ wireframe = NoWireframe
    /\ log = << >>
    /\ probe = NoProbe
    /\ curve_in = NoCurveIn
    /\ curve_out = NoCurveOut
    /\ editor = NoEditor
    /\ last_event = NoEvent
    /\ update_call = NoUpdateCall
    /\ param_check \in [status : {"none"}, raw_params : ParamSets]
    /\ lofted = << >>
    /\ hull_test = NoHullTest

ParamsFrame ==
    UNCHANGED <<two_d_data, wireframe, log, probe, curve_in, curve_out,
                editor, last_event, update_call, lofted, hull_test>>

\* param_check keeps the validator called, the numbers it was given and
\* its verdict
CheckHullParamsStore ==
    /\ param_check.status = "none"
    /\ param_check' =
         [status |-> "returned", validator |-> "param_check_store",
          params |-> param_check.raw_params,
          is_valid |-> check_hull_params_store(param_check.raw_params).is_valid]
    /\ ParamsFrame

Validate ==
    /\ param_check.status = "none"
    /\ param_check' =
         [status |-> "returned", validator |-> "HullParamValidator",
          params |-> without_Loa(param_check.raw_params),
          is_valid |-> validate(without_Loa(param_check.raw_params)).is_valid]
    /\ ParamsFrame

CheckHullParamsMain ==
    /\ param_check.status = "none"
    /\ \E raw \in RawInputs(param_check.raw_params) :
         param_check' =
           [status |-> "returned", validator |-> "main",
            params |-> numbers_of(raw),
            is_valid |-> check_hull_params_main(raw).is_valid]
    /\ ParamsFrame

NextParams == CheckHullParamsStore \/ Validate \/ CheckHullParamsMain

SpecParams == InitParams /\ [][NextParams]_vars

----------------------------------------------------------------------------
(* Lofting the data of an open editor.  get_updated_hull_data hands out the *)
(* very object the handlers assign to, and nothing keeps a caller from      *)
(* lofting it between a press and its release.  lofted keeps the wireframes *)
(* the caller has obtained so far.                                          *)

MaxLofts == 2
MaxLiveEvents == 2

\* get_updated_hull_data: the editor's own hull data, not a copy
get_updated_hull_data(data) == data

InitEditLoft ==
    /\ two_d_data = initialize_curves(ShortHull)
    /\ editor = new_editor(initialize_curves(ShortHull))
    /\ wireframe = NoWireframe
    /\ log = << >>
    /\ probe = NoProbe
    /\ curve_in = NoCurveIn
    /\ curve_out = NoCurveOut
    /\ last_event = NoEvent
    /\ update_call = NoUpdateCall
    /\ param_check = NoParamCheck
    /\ lofted = << >>
    /\ hull_test = NoHullTest

LoftLive ==
    /\ Len(lofted) < MaxLofts
    /\ LET call == generate_3d_wireframe(get_updated_hull_data(two_d_data))
       IN  /\ wireframe' = call.ret
           /\ log' = call.log
           /\ two_d_data' = call.arg
           /\ lofted' = Append(lofted, call.ret)
    /\ UNCHANGED <<probe, curve_in, curve_out, editor, last_event,
                   update_call, param_check, hull_test>>

LiveEdit ==
    /\ NextEditor
    /\ Len(editor'.interaction_events) <= MaxLiveEvents

NextEditLoft == LiveEdit \/ LoftLive

SpecEditLoft == InitEditLoft /\ [][NextEditLoft]_vars

----------------------------------------------------------------------------
(* Properties of the lofter *)

Lofted == wireframe.status # "none"
Returned == wireframe.status = "returned"
Stations == 1 .. Len(two_d_data.side_profile)
\* vertex and station numbers of the source count from 0
Vertex(k) == wireframe.vertices[k + 1]
Station(i) == two_d_data.side_profile[i + 1]
NumStations == Len(two_d_data.side_profile)
WellFormedInput ==
    /\ Len(two_d_data.side_profile) >= 2
    /\ \A i, j \in Stations :
         i < j => two_d_data.side_profile[i][1] <= two_d_data.side_profile[j][1]
    /\ Len(two_d_data.half_breadth) >= 1

\* C1: a side profile of N >= 2 points with non-decreasing x and a
\* half-breadth of M >= 1 points loft to exactly 2N vertices and 3N - 2 edges.
C1_Counts ==
    (Lofted /\ WellFormedInput) =>
        /\ Returned
        /\ Len(wireframe.vertices) = 2 * NumStations
        /\ Len(wireframe.edges) = 3 * NumStations - 2

C1_Witness ==
    /\ Returned
    /\ NumStations = 3
    /\ Len(wireframe.vertices) = 6
    /\ Len(wireframe.edges) = 7

\* the value the half-breadth resolver gives at abscissa x
Resolved(x) ==
    interpolate_y(create_interpolation_function(two_d_data.half_breadth),
                  Int2Rat(x))

\* C2: in a returned wireframe, vertex 2i is (x_i, |r(x_i)|, z_i) and vertex
\* 2i+1 is its mirror (x_i, -|r(x_i)|, z_i); vertex 2i has y >= 0; a negative
\* resolved value does not make the call raise.
C2_MirrorPairs ==
    /\ Returned =>
         \A i \in 0 .. NumStations - 1 :
            LET r == Resolved(Station(i)[1])
                y == IF r[1] < 0 THEN << -r[1], r[2] >> ELSE r
            IN  /\ Vertex(2 * i) = << Station(i)[1], y, Station(i)[2] >>
                /\ Vertex(2 * i + 1) =
                       << Station(i)[1], << -y[1], y[2] >>, Station(i)[2] >>
                /\ Vertex(2 * i)[2][1] >= 0
                /\ Vertex(2 * i + 1)[2][1] = -Vertex(2 * i)[2][1]
                /\ Vertex(2 * i + 1)[2][2] = Vertex(2 * i)[2][2]
    /\ (Lofted /\ WellFormedInput) => Returned

C2_Witness ==
    /\ Returned
    /\ \E i \in 0 .. NumStations - 1 :
          /\ Resolved(Station(i)[1])[1] < 0
          /\ Vertex(2 * i)[2][1] > 0
          /\ <<"negative_half_breadth", Station(i)[1]>> \in Range(log)

TransverseEdges(N) == { << 2 * i, 2 * i + 1 >> : i \in 0 .. N - 1 }
StarboardEdges(N) == { << 2 * i, 2 * i + 2 >> : i \in 0 .. N - 2 }
PortEdges(N) == { << 2 * i + 1, 2 * i + 3 >> : i \in 0 .. N - 2 }

\* C3: the edges are exactly the pairs (2i, 2i+1), i < N, and (2i, 2i+2),
\* (2i+1, 2i+3), i < N-1, each once; every endpoint is a vertex index, no
\* edge is a self-loop, no edge is listed twice.
C3_EdgeTopology ==
    Returned =>
        LET E == wireframe.edges
            N == NumStations
        IN  /\ Range(E) = TransverseEdges(N) \cup StarboardEdges(N)
                              \cup PortEdges(N)
            /\ \A a, b \in 1 .. Len(E) : a # b => E[a] # E[b]
            /\ \A a \in 1 .. Len(E) :
                  /\ E[a][1] \in 0 .. 2 * N - 1
                  /\ E[a][2] \in 0 .. 2 * N - 1
                  /\ E[a][1] \in 0 .. Len(wireframe.vertices) - 1
                  /\ E[a][2] \in 0 .. Len(wireframe.vertices) - 1
                  /\ E[a][1] # E[a][2]

C3_Witness ==
    /\ Returned
    /\ NumStations = 3
    /\ Range(wireframe.edges) =
          { <<0, 1>>, <<2, 3>>, <<4, 5>>, <<0, 2>>, <<1, 3>>, <<2, 4>>, <<3, 5>> }

Rejectable ==
    \/ two_d_data.side_profile = << >>
    \/ Len(two_d_data.side_profile) < 2
    \/ two_d_data.half_breadth = << >>
    \/ \E i \in 1 .. Len(two_d_data.side_profile) - 1 :
          two_d_data.side_profile[i + 1][1] < two_d_data.side_profile[i][1]

\* C4: the call raises, returning no wireframe at all, exactly when the side
\* profile is empty or shorter than 2, the half-breadth is empty, or some
\* consecutive side-profile x decrease; equal consecutive x are accepted.
C4_Rejection ==
    Lofted =>
        /\ wireframe.status = "raised" <=> Rejectable
        /\ wireframe.status = "returned" <=> ~ Rejectable
        /\ wireframe.status = "raised" =>
              /\ wireframe.vertices = << >>
              /\ wireframe.edges = << >>
              /\ wireframe.error # ""

C4_Witness ==
    /\ wireframe.status = "raised"
    /\ Len(two_d_data.side_profile) = 3
    /\ two_d_data.half_breadth # << >>
    /\ two_d_data.side_profile[1][1] = two_d_data.side_profile[2][1]
    /\ two_d_data.side_profile[3][1] < two_d_data.side_profile[2][1]

\* C5: the returned wireframe carries the line_version the input had when
\* the call was made, and the call leaves line_version as it was.
C5_VersionCopied ==
    [][(wireframe.status = "none" /\ wireframe'.status = "returned") =>
          /\ wireframe'.model_version = two_d_data.line_version
          /\ two_d_data'.line_version = two_d_data.line_version]_vars

C5_Witness ==
    /\ Returned
    /\ two_d_data.line_version = 2
    /\ wireframe.model_version = 2

\* C6: a lofting call, returning or raising, leaves side_profile,
\* half_breadth, cross_sections and line_version of its input as they were.
C6_InputUntouched ==
    [][(wireframe.status = "none" /\ wireframe'.status # "none") =>
          /\ two_d_data'.side_profile = two_d_data.side_profile
          /\ two_d_data'.half_breadth = two_d_data.half_breadth
          /\ two_d_data'.cross_sections = two_d_data.cross_sections
          /\ two_d_data'.line_version = two_d_data.line_version]_vars

C6_Witness ==
    /\ Returned
    /\ Len(two_d_data.half_breadth) = 3
    /\ two_d_data.half_breadth[1][1] > two_d_data.half_breadth[2][1]
    /\ two_d_data.half_breadth[2][1] > two_d_data.half_breadth[3][1]

----------------------------------------------------------------------------
(* Properties of the half-breadth resolver *)

Probed == probe.status = "returned"
HB == two_d_data.half_breadth
HBIdx == 1 .. Len(HB)
DistinctX == \A i, j \in HBIdx : i # j => HB[i][1] # HB[j][1]
\* p and q are neighbouring samples: p left of q, no sample between them
Adjacent(p, q) ==
    /\ p[1] < q[1]
    /\ \A k \in HBIdx : ~ (p[1] < HB[k][1] /\ HB[k][1] < q[1])
Leftmost(p) == \A k \in HBIdx : p[1] <= HB[k][1]
Rightmost(p) == \A k \in HBIdx : HB[k][1] <= p[1]
\* the rational y lies at abscissa x on the straight line through p and q
OnLine(x, y, p, q) ==
    (y[1] - p[2] * y[2]) * (q[1] - p[1]) = (q[2] - p[2]) * (x - p[1]) * y[2]

\* C7: two samples (x1, y1), (x2, y2), x1 < x2: the resolver returns y1 for
\* x <= x1, y2 for x >= x2, and y1 + (y2 - y1)(x - x1)/(x2 - x1) between.
C7_TwoPointClamp ==
    (Probed /\ Len(HB) = 2) =>
        \A i, j \in HBIdx :
            HB[i][1] < HB[j][1] =>
                /\ probe.x <= HB[i][1] => probe.y = << HB[i][2], 1 >>
                /\ probe.x >= HB[j][1] => probe.y = << HB[j][2], 1 >>
                /\ (HB[i][1] < probe.x /\ probe.x < HB[j][1]) =>
                       OnLine(probe.x, probe.y, HB[i], HB[j])

C7_Witness ==
    /\ Probed
    /\ Len(HB) = 2
    /\ HB[2][1] < HB[1][1]
    /\ HB[1][2] # HB[2][2]
    /\ probe.x < HB[2][1]
    /\ probe.y = << HB[2][2], 1 >>

\* the resolver is piecewise linear between neighbouring samples
InsidePiecewiseLinear ==
    \A i, j \in HBIdx :
        (Adjacent(HB[i], HB[j]) /\ HB[i][1] <= probe.x /\ probe.x <= HB[j][1])
            => OnLine(probe.x, probe.y, HB[i], HB[j])

----------------------------------------------------------------------------
(* Properties of the curve reconstructor *)

Reconstructed == curve_out.status # "none"
CP == curve_in.points
CPIdx == 1 .. Len(CP)
Out == curve_out.points

\* C9: generate_smooth_curve never raises, whatever the control points (any
\* number, any order, repeated abscissas, ordinates that are not finite) and
\* whether the curve is closed or open: a failed fit is absorbed and a point
\* sequence is returned.
C9_NeverRaises ==
    Reconstructed =>
        /\ curve_out.status = "returned"
        /\ Len(CP) >= 1 => Len(Out) >= 1
        /\ \A i \in 1 .. Len(Out) : Len(Out[i]) = 2

\* a closed curve whose last point is within the tolerance of the first but
\* not equal to it: the periodic fit fails and the fallback answers
C9_Witness ==
    /\ curve_out.status = "returned"
    /\ curve_in.is_closed
    /\ Len(CP) = 3
    /\ CP[1] # CP[3]
    /\ Len(Out) = 2 * segment_points

\* C10 as stated: an open curve with two abscissas more than 1e-10 apart is
\* returned as exactly 100 points with non-decreasing x that start at the
\* smallest and end at the largest control abscissa.
C10_OpenCurveSpansControlRange ==
    (/\ Reconstructed
     /\ ~ curve_in.is_closed
     /\ \E i, j \in CPIdx : CP[i][1] - CP[j][1] > Eps) =>
        /\ curve_out.status = "returned"
        /\ Len(Out) = NumSamples
        /\ \A i \in 1 .. Len(Out) - 1 : RLe(Out[i][1], Out[i + 1][1])
        /\ \A i \in CPIdx : RLe(Out[1][1], Int2Rat(CP[i][1]))
        /\ \E i \in CPIdx : Out[1][1] = Int2Rat(CP[i][1])
        /\ \A i \in CPIdx : RLe(Int2Rat(CP[i][1]), Out[Len(Out)][1])
        /\ \E i \in CPIdx : Out[Len(Out)][1] = Int2Rat(CP[i][1])

----------------------------------------------------------------------------
(* Properties of the closed-curve reconstruction *)

\* two floats differ by more than the tolerance (never, if one is NaN)
Apart(a, b) ==
    /\ a[2] # 0
    /\ b[2] # 0
    /\ \/ (a[1] * b[2] - b[1] * a[2]) > Eps * a[2] * b[2]
       \/ (b[1] * a[2] - a[1] * b[2]) > Eps * a[2] * b[2]
\* the first and the last control point differ in some coordinate
EndsApart ==
    \/ Apart(<< CP[1][1], 1 >>, << CP[Len(CP)][1], 1 >>)
    \/ Apart(CP[1][2], CP[Len(CP)][2])
\* the control points after the closure step
Working == IF EndsApart THEN CP \o << CP[1] >> ELSE CP
\* the periodic fit of the working copy succeeds: every ordinate is finite
\* and the last point equals the first
FitSucceeds ==
    /\ \A i \in 1 .. Len(Working) : Working[i][2][2] # 0
    /\ Working[1] = Working[Len(Working)]
ClosedCase == Reconstructed /\ curve_in.is_closed /\ Len(CP) >= 3

\* C11: a closed curve of 3 or more control points whose periodic fit
\* succeeds is returned as exactly 100 points, the first and the last equal
\* to each other and to the first control point; the first point is appended
\* to the working copy exactly when the first and the last control point
\* differ by more than 1e-10 in some coordinate.
C11_ClosedLoop ==
    ClosedCase =>
        /\ closed_points(CP) = Working
        /\ FitSucceeds =>
              /\ curve_out.status = "returned"
              /\ Len(Out) = NumSamples
              /\ Out[1] = Out[NumSamples]
              /\ Out[1] = << << CP[1][1], 1 >>, CP[1][2] >>

C11_Witness ==
    /\ ClosedCase
    /\ Len(CP) = 4
    /\ EndsApart
    /\ ~ Apart(CP[1][2], CP[4][2])
    /\ FitSucceeds
    /\ Len(Out) = NumSamples
    /\ Out[1] = Out[NumSamples]

\* k times the rational a
Times(k, a) == RMul(<< k, 1 >>, a)

\* C12: when the periodic fit fails, the result has 20 x segmentCount
\* points, segmentCount the number of control points after closure minus 1,
\* and point 20k + j (0 <= j < 20) is P_k + (j/20)(P_{k+1} - P_k); the
\* length follows the segment count (it is 100 only for 5 segments), it is
\* not the fixed 100 of the spline path.
C12_ClosedFallback ==
    (ClosedCase /\ ~ FitSucceeds) =>
        LET segmentCount == Len(Working) - 1
        IN  /\ curve_out.status = "returned"
            /\ Len(Out) = segment_points * segmentCount
            /\ segmentCount # 5 => Len(Out) # NumSamples
            /\ \A k \in 0 .. segmentCount - 1 : \A j \in 0 .. segment_points - 1 :
                  LET P == Working[k + 1]
                      Q == Working[k + 2]
                      R == Out[segment_points * k + j + 1]
                  IN  /\ Times(segment_points, R[1]) =
                            << (segment_points - j) * P[1] + j * Q[1], 1 >>
                      /\ IF P[2][2] = 0 \/ Q[2][2] = 0 THEN R[2][2] = 0
                         ELSE Times(segment_points, R[2]) =
                                 RAdd(Times(segment_points - j, P[2]),
                                      Times(j, Q[2]))

C12_Witness ==
    /\ ClosedCase
    /\ ~ FitSucceeds
    /\ Len(CP) = 3
    /\ EndsApart
    /\ Len(Out) = 3 * segment_points
    /\ Out[segment_points + 11] # Out[segment_points + 1]

----------------------------------------------------------------------------
(* Properties of the interactive editor *)

Events == editor.interaction_events
Version == two_d_data.line_version
Dragging == editor.dragging
Idle ==
    /\ ~ editor.dragging
    /\ editor.dragged_idx = None
    /\ editor.dragged_line_type = None
    /\ editor.dragged_cross_section_x = None
\* the step handles a mouse event of this kind
Handles(name) == last_event'.name = name
LeftPressInAxes ==
    /\ Handles("button_press_event")
    /\ last_event'.button = 1
    /\ last_event'.inaxes # None
LastLogged == Events[Len(Events)]
\* the step appends exactly one event, of this type
AppendsOne(event_type) ==
    /\ Len(editor'.interaction_events) = Len(Events) + 1
    /\ SubSeq(editor'.interaction_events, 1, Len(Events)) = Events
    /\ editor'.interaction_events[Len(Events) + 1].event_type = event_type
\* the control points of a family that can be picked and dragged
FamilyPoints(data, line_type) ==
    IF line_type = "side_profile" THEN data.side_profile
    ELSE IF line_type = "half_breadth" THEN data.half_breadth
    ELSE IF editor.current_cross_section_x = None THEN << >>
    ELSE data.cross_sections[editor.current_cross_section_x[1]]
EventTypes == [i \in 1 .. Len(Events) |-> Events[i].event_type]

(* C13: across a drag gesture (press on a control point, any number of
   pointer moves, release) line_version is left alone by the press and by
   every move; the release that ends the drag makes it exactly one greater,
   appends exactly one drag_end event and leaves the editor Idle. *)
C13_DragGesture ==
    [][ /\ (Handles("button_press_event") \/ Handles("motion_notify_event"))
            => two_d_data'.line_version = Version
        /\ (Dragging /\ Handles("button_release_event"))
            => /\ two_d_data'.line_version = Version + 1
               /\ AppendsOne("drag_end")
               /\ Idle' ]_vars

C13_Witness ==
    /\ EventTypes = <<"drag_start", "dragging", "drag_end">>
    /\ last_event.name = "button_release_event"
    /\ Version = 2
    /\ Idle

\* the control points within 0.09 of the pointer, as <<family, index>>
Near(x, y) ==
    UNION { { <<t, i>> :
                i \in { k \in 0 .. Len(FamilyPoints(two_d_data,
                                                    line_types[t])) - 1 :
                    LET c == FamilyPoints(two_d_data, line_types[t])[k + 1]
                    IN  (x - c[1]) * (x - c[1]) + (y - c[2]) * (y - c[2])
                            <= 81 } } :
            t \in 1 .. 3 }
Earlier(h, g) == h[1] < g[1] \/ (h[1] = g[1] /\ h[2] <= g[2])

(* C14: in Idle, a left press inside an axes starts a drag exactly when some
   control point lies within 1.5 x 0.06 of the pointer; the point picked is
   the first one in the order side_profile, half_breadth, cross_section,
   ascending index; the editor is then Dragging that point and one
   drag_start event is appended; with no point near, the drag state and the
   event log stay as they were. *)
C14_Pick ==
    [][ (Idle /\ LeftPressInAxes) =>
          LET near == Near(last_event'.xdata[1], last_event'.ydata[1])
          IN  IF near = {}
              THEN Idle' /\ editor'.interaction_events = Events
              ELSE \E h \in near :
                     /\ \A g \in near : Earlier(h, g)
                     /\ editor'.dragging
                     /\ editor'.dragged_line_type = Some(line_types[h[1]])
                     /\ editor'.dragged_idx = Some(h[2])
                     /\ AppendsOne("drag_start") ]_vars

\* a press near three control points of two families picked the first
C14_Witness ==
    /\ Events # << >>
    /\ last_event.name = "button_press_event"
    /\ last_event.xdata = Some(0) /\ last_event.ydata = Some(3)
    /\ LastLogged.event_type = "drag_start"
    /\ LastLogged.line_type = "side_profile"
    /\ LastLogged.target_point_idx = 0
    /\ Len(Events) = 1
    /\ Cardinality(Near(0, 3)) = 3

Clip(lo, hi, v) == IF v < lo THEN lo ELSE IF v > hi THEN hi ELSE v
InBounds(line_type, p) ==
    IF line_type = "side_profile"
    THEN p[1] \in -100 .. 1300 /\ p[2] \in -50 .. 400
    ELSE IF line_type = "half_breadth"
    THEN p[1] \in -100 .. 1300 /\ p[2] \in -50 .. 300
    ELSE p[1] \in -300 .. 300 /\ p[2] \in -50 .. 400
Clamped(line_type, x, y) ==
    IF line_type = "side_profile"
    THEN <<Clip(-100, 1300, x), Clip(-50, 400, y)>>
    ELSE IF line_type = "half_breadth"
    THEN <<Clip(-100, 1300, x), Clip(-50, 300, y)>>
    ELSE <<Clip(-300, 300, x), Clip(-50, 400, y)>>

(* C15: while Dragging, a pointer move inside an axes sets the dragged
   control point to the pointer position clamped to the bounds of the
   dragged family and appends one dragging event whose new_coords are the
   stored control point; every dragging event in the log lies within the
   bounds of its family. *)
C15_ClampedMove ==
    /\ [][ (Dragging /\ Handles("motion_notify_event")
             /\ last_event'.inaxes # None) =>
             LET line_type == editor.dragged_line_type[1]
                 idx == editor.dragged_idx[1]
                 stored == FamilyPoints(two_d_data', line_type)[idx + 1]
             IN  /\ stored = Clamped(line_type, last_event'.xdata[1],
                                     last_event'.ydata[1])
                 /\ AppendsOne("dragging")
                 /\ editor'.interaction_events[Len(Events) + 1].new_coords
                        = stored ]_vars
    /\ [](\A i \in 1 .. Len(Events) :
            Events[i].event_type = "dragging"
                => InBounds(Events[i].line_type, Events[i].new_coords))

\* a half-breadth point was pulled to a pointer beyond the upper bounds
C15_Witness ==
    /\ Events # << >>
    /\ LastLogged.event_type = "dragging"
    /\ LastLogged.line_type = "half_breadth"
    /\ last_event.xdata = Some(1400) /\ last_event.ydata = Some(450)
    /\ LastLogged.new_coords = <<1300, 300>>
    /\ two_d_data.half_breadth[LastLogged.target_point_idx + 1] = <<1300, 300>>

ControlPointsOf(data) ==
    <<data.side_profile, data.half_breadth, data.cross_sections>>

(* C16 as stated: a release outside any axes, or while the editor is not
   Dragging, leaves control points, line_version and the event log as they
   were and leaves the editor Idle. *)
C16_ReleaseNoOp ==
    [][ (Handles("button_release_event")
          /\ (last_event'.inaxes = None \/ ~ Dragging))
          => /\ two_d_data' = two_d_data
             /\ editor'.interaction_events = Events
             /\ Idle' ]_vars

(* C16: a release while the editor is not Dragging leaves control points,
   line_version and the event log as they were; a release outside any axes
   while Dragging ends the drag like any other release: one drag_end event
   is appended for the dragged point, line_version grows by one and the
   control points stay as they were.  Either way the editor is Idle
   afterwards. *)
C16_ReleaseOutsideEndsDrag ==
    [][ /\ (Handles("button_release_event") /\ ~ Dragging)
            => /\ two_d_data' = two_d_data
               /\ editor'.interaction_events = Events
               /\ Idle'
        /\ (Handles("button_release_event") /\ Dragging
              /\ last_event'.inaxes = None)
            => /\ ControlPointsOf(two_d_data') = ControlPointsOf(two_d_data)
               /\ two_d_data'.line_version = Version + 1
               /\ AppendsOne("drag_end")
               /\ editor'.interaction_events[Len(Events) + 1].target_point_idx
                      = editor.dragged_idx[1]
               /\ Idle' ]_vars

\* a drag was ended by a release outside every axes
C16_Witness ==
    /\ EventTypes = <<"drag_start", "drag_end">>
    /\ last_event.name = "button_release_event"
    /\ last_event.inaxes = None
    /\ Version = 2
    /\ Idle

NonDecreasing(xs) == \A i, j \in 1 .. Len(xs) : i < j => xs[i] <= xs[j]

(* C18 as stated: the side profile always has at least 2 points and
   non-decreasing x-coordinates, whatever the mouse does. *)
C18_SideProfileStaysOrdered ==
    /\ Len(two_d_data.side_profile) >= 2
    /\ NonDecreasing(first_coords(two_d_data.side_profile))

(* C18: the editor never adds or removes a side-profile point, so a side
   profile that starts with at least 2 points keeps at least 2, and every
   point stays within the side bounds; the order of the x-coordinates is
   not kept: a point can be dragged past its neighbour. *)
C18_SideProfileKeepsItsPoints ==
    /\ [][Len(two_d_data'.side_profile) = Len(two_d_data.side_profile)]_vars
    /\ [](/\ Len(two_d_data.side_profile) >= 2
          /\ \A i \in 1 .. Len(two_d_data.side_profile) :
               InBounds("side_profile", two_d_data.side_profile[i]))

\* the first side-profile point was dragged past the second one
C18_Witness ==
    /\ Events # << >>
    /\ LastLogged.event_type = "dragging"
    /\ LastLogged.line_type = "side_profile"
    /\ LastLogged.target_point_idx = 0
    /\ Len(two_d_data.side_profile) >= 2
    /\ two_d_data.side_profile[1][1] > two_d_data.side_profile[2][1]

----------------------------------------------------------------------------
(* Properties of update_2d_lines *)

Updated == update_call.status # "none"

(* C17: update_2d_lines never modifies old_2d_data: after the call its
   side_profile, half_breadth, every cross-section list and line_version
   are what they were before, whatever the line type of the event; the
   returned object carries line_version + 1. *)
C17_OldDataUntouched ==
    Updated =>
        /\ two_d_data = update_call.before
        /\ update_call.status = "returned" =>
             update_call.ret[1].line_version
                 = update_call.before.line_version + 1

----------------------------------------------------------------------------
(* Properties of the parameter validators *)

Accepted == param_check.status = "returned" /\ param_check.is_valid
P == param_check.params

(* C19: every parameter set a validator of the repository accepts has
   Lpp, B, D, T, Delta > 0, B < Lpp, D < Lpp and T < D, and Loa >= Lpp
   when Loa is given. *)
C19_AcceptedParamsSound ==
    Accepted =>
        /\ P.Lpp > 0 /\ P.B > 0 /\ P.D > 0 /\ P.T > 0 /\ P.Delta > 0
        /\ P.B < P.Lpp
        /\ P.D < P.Lpp
        /\ P.T < P.D
        /\ P.Loa # None => P.Loa[1] >= P.Lpp

----------------------------------------------------------------------------
(* Properties of the lofter's warnings *)

HalfXRange == Range(first_coords(two_d_data.half_breadth))
StationOutsideHalfRange ==
    \E i \in Stations :
        \/ two_d_data.side_profile[i][1] < SetMin(HalfXRange)
        \/ two_d_data.side_profile[i][1] > SetMax(HalfXRange)

(* C20: whenever the lofter resolves the half-breadth at a station that
   lies outside the x-range of the half-breadth samples, it logs the
   extrapolation warning and still returns the wireframe, also when the two
   x-ranges overlap. *)
C20_WarnsOutsideRange ==
    (Lofted /\ WellFormedInput /\ StationOutsideHalfRange) =>
        /\ Returned
        /\ <<"range_mismatch">> \in Range(log)

----------------------------------------------------------------------------
(* The hull of the 3D test script (3d_test.py) *)

\* length between perpendiculars of the test hull
Lpp == 20
\* height of the uppermost waterline of the test hull
TopWaterline == 5
\* number of stations and of waterlines of the dense grid
DenseStations == 51
DenseWaterlines == 21

\* largest reduced grid that is enumerated next to the dense grid
MaxGridStations == 4
MaxGridWaterlines == 4

\* the half-breadth the bivariate spline yields at station i and waterline j:
\* one of a few surfaces, some of them with negative and with zero values
HullShapes == 1 .. 6
half_breadth_dense(shape, i, j) ==
    CASE shape = 1 -> Int2Rat(0)
      [] shape = 2 -> Int2Rat(i + j)
      [] shape = 3 -> Int2Rat(j - i)
      [] shape = 4 -> Int2Rat(1)
      [] shape = 5 -> Rat(i * j, 2)
      [] OTHER     -> Int2Rat(2 * j + 1)

\* the starboard vertices followed by the port vertices, station by station
hull_vertices(S, W, shape) ==
    [ n \in 1 .. 2 * S * W |->
        LET r == (n - 1) % (S * W)
            i == r \div W
            j == r % W
            y == half_breadth_dense(shape, i, j)
        IN  << linspace(0, Lpp, S, i),
               IF n - 1 < S * W THEN y ELSE RNeg(y),
               linspace(0, TopWaterline, W, j) >> ]

\* edges along each station, joining neighbouring waterlines
waterline_edges(S, W, vertex_count) ==
    [ n \in 1 .. 2 * S * (W - 1) |->
        LET k == (n - 1) \div 2
            i == k \div (W - 1)
            j == k % (W - 1)
            off == IF (n - 1) % 2 = 0 THEN 0 ELSE vertex_count
        IN  << off + i * W + j, off + i * W + j + 1 >> ]

\* edges along each waterline, joining neighbouring stations
station_edges(S, W, vertex_count) ==
    [ n \in 1 .. 2 * W * (S - 1) |->
        LET k == (n - 1) \div 2
            j == k \div (S - 1)
            i == k % (S - 1)
            off == IF (n - 1) % 2 = 0 THEN 0 ELSE vertex_count
        IN  << off + i * W + j, off + (i + 1) * W + j >> ]

\* range(0, n, 2) visits k
braced_everywhere(k) == TRUE
braced(k) == k % 2 = 0

\* edges that join a starboard vertex to its port mirror
lateral_edges(S, W, vertex_count) ==
    LET BI == { i \in 0 .. S - 1 : braced(i) }
        BJ == { j \in 0 .. W - 1 : braced(j) }
        rank(i, j) == Cardinality({ a \in BI : a < i }) * Cardinality(BJ)
                        + Cardinality({ b \in BJ : b < j })
    IN  [ n \in 1 .. Cardinality(BI) * Cardinality(BJ) |->
            LET ij == CHOOSE p \in BI \X BJ : rank(p[1], p[2]) = n - 1
            IN  << ij[1] * W + ij[2], vertex_count + ij[1] * W + ij[2] >> ]

create_professional_hull(S, W, shape) ==
    LET vertex_count == S * W
    IN  [ vertices |-> hull_vertices(S, W, shape),
          edges |-> waterline_edges(S, W, vertex_count)
                      \o station_edges(S, W, vertex_count)
                      \o lateral_edges(S, W, vertex_count) ]

\* the grids the hull is built on: the dense grid of the script and reduced
\* grids of either parity
HullGrids ==
    { <<DenseStations, DenseWaterlines>> }
        \cup ((2 .. MaxGridStations) \X (2 .. MaxGridWaterlines))

InitHullTest ==
    /\ two_d_data = EmptyHull
    /\ wireframe = NoWireframe
    /\ log = << >>
    /\ probe = NoProbe
    /\ curve_in = NoCurveIn
    /\ curve_out = NoCurveOut
    /\ editor = NoEditor
    /\ last_event = NoEvent
    /\ update_call = NoUpdateCall
    /\ param_check = NoParamCheck
    /\ lofted = << >>
    /\ \E g \in HullGrids, shape \in HullShapes :
           hull_test = [status |-> "start", num_stations |-> g[1],
                        num_waterlines |-> g[2], shape |-> shape]

BuildHull ==
    /\ hull_test.status = "start"
    /\ LET hull == create_professional_hull(hull_test.num_stations,
                                            hull_test.num_waterlines,
                                            hull_test.shape)
       IN  hull_test' = [hull_test EXCEPT !.status = "built"]
                            @@ [vertices |-> hull.vertices, edges |-> hull.edges]
    /\ UNCHANGED <<two_d_data, wireframe, log, probe, curve_in, curve_out,
                   editor, last_event, update_call, param_check, lofted>>

NextHullTest == BuildHull

SpecHullTest == InitHullTest /\ [][NextHullTest]_vars

----------------------------------------------------------------------------
(* Replaying the log of an editing session with update_2d_lines *)

\* longest log of a session that is replayed
MaxReplayEvents == 4

\* one update_2d_lines call per drag_end event of the log, in order, each on
\* the data the call before it returned
RECURSIVE replay(_, _)
replay(data, events) ==
    IF events = << >> THEN [status |-> "returned", ret |-> Some(data)]
    ELSE IF Head(events).event_type # "drag_end"
    THEN replay(data, Tail(events))
    ELSE LET call == update_2d_lines(data, Head(events))
         IN  IF call.status = "raised" THEN call
             ELSE replay(call.ret[1], Tail(events))

\* the editor is opened on the short hull; update_call keeps a deep copy of
\* the data as it is after construction, which shares no list with it
InitReplay ==
    /\ two_d_data = initialize_curves(ShortHull)
    /\ editor = new_editor(initialize_curves(ShortHull))
    /\ wireframe = NoWireframe
    /\ log = << >>
    /\ probe = NoProbe
    /\ curve_in = NoCurveIn
    /\ curve_out = NoCurveOut
    /\ last_event = NoEvent
    /\ update_call = [status |-> "none",
                      before |-> initialize_curves(ShortHull)]
    /\ param_check = NoParamCheck
    /\ lofted = << >>
    /\ hull_test = NoHullTest

SessionPress ==
    /\ \E button \in Buttons, pointer \in Pointers :
         LET event == MouseEvent("button_press_event", button, pointer)
         IN  /\ last_event' = event
             /\ editor' = on_press(editor, event)
    /\ Len(editor'.interaction_events) <= MaxReplayEvents
    /\ UNCHANGED two_d_data
    /\ EditorFrame

SessionMove ==
    /\ \E pointer \in Pointers :
         LET event == MouseEvent("motion_notify_event", 1, pointer)
             after == on_drag(editor, two_d_data, event)
         IN  /\ last_event' = event
             /\ editor' = after.editor
             /\ two_d_data' = after.data
    /\ Len(editor'.interaction_events) <= MaxReplayEvents
    /\ EditorFrame

SessionRelease ==
    /\ \E pointer \in Pointers :
         LET event == MouseEvent("button_release_event", 1, pointer)
             after == on_release(editor, two_d_data, event)
         IN  /\ last_event' = event
             /\ editor' = after.editor
             /\ two_d_data' = after.data
    /\ Len(editor'.interaction_events) <= MaxReplayEvents
    /\ EditorFrame

NextReplay == SessionPress \/ SessionMove \/ SessionRelease

SpecReplay == InitReplay /\ [][NextReplay]_vars

----------------------------------------------------------------------------
(* Properties of the fallbacks of the curve reconstruction *)

SortedCP == sorted_by_x(CP)
UniqueX ==
    Append(take(first_coords(SortedCP), unique_indices(first_coords(SortedCP))),
           SortedCP[Len(SortedCP)][1])
UniqueY ==
    Append(take(second_coords(SortedCP), unique_indices(first_coords(SortedCP))),
           SortedCP[Len(SortedCP)][2])
OpenCase == Reconstructed /\ ~ curve_in.is_closed /\ Len(CP) >= 2
FewUnique == Len(UniqueX) < 2
OpenFitRaises == ~ FewUnique /\ natural_spline_raises(UniqueX, UniqueY)

(* C21: in both degenerate cases of the open-curve reconstruction (fewer
   than 2 unique abscissas after deduplication, or a spline fit that raises)
   the result is the same fallback: the piecewise-linear interpolation over
   the original control points sorted by x. *)
C21_OneFallback ==
    (OpenCase /\ (FewUnique \/ OpenFitRaises)) =>
        Out = linear_interpolation(SortedCP)

ClosedCall == Reconstructed /\ curve_in.is_closed

(* C22 as stated: a closed curve is returned as its input only when the
   input has fewer than 2 control points; 2 distinct control points are
   closed and resampled, so the result is not the 2 input points. *)
C22_OnlyShorterThanTwoUnchanged ==
    ClosedCall =>
        /\ Out = as_curve(CP) => Len(CP) < 2
        /\ (Len(CP) = 2 /\ CP[1] # CP[2]) => Out # as_curve(CP)

(* C22: a closed curve is returned as its input exactly when the input has
   fewer than 3 control points: 2 control points, distinct or not, come
   back as they are; from 3 control points on the outline is resampled to
   100 points or to 20 points per segment. *)
C22_ShorterThanThreeUnchanged ==
    ClosedCall =>
        /\ Len(CP) < 3 => Out = as_curve(CP)
        /\ Len(CP) >= 3 =>
             /\ Len(Out) \in {NumSamples} \cup
                    { segment_points * k : k \in Len(CP) - 1 .. Len(CP) }
             /\ Out # as_curve(CP)

\* two distinct control points of a closed curve came back as they were
C22_Witness ==
    /\ ClosedCall
    /\ Len(CP) = 2
    /\ CP[1] # CP[2]
    /\ Out = as_curve(CP)
    /\ Len(Out) = 2

----------------------------------------------------------------------------
(* Further properties of the interactive editor *)

\* the control points of the hull data, as <<family, station, index>> |-> point;
\* the station of side_profile and half_breadth is None
PointKeys(data) ==
    { <<"side_profile", None, i>> : i \in 1 .. Len(data.side_profile) }
    \cup { <<"half_breadth", None, i>> : i \in 1 .. Len(data.half_breadth) }
    \cup UNION { { <<"cross_section", Some(x), i>> :
                     i \in 1 .. Len(data.cross_sections[x]) } :
                 x \in DOMAIN data.cross_sections }
PointAt(data, key) ==
    IF key[1] = "side_profile" THEN data.side_profile[key[3]]
    ELSE IF key[1] = "half_breadth" THEN data.half_breadth[key[3]]
    ELSE data.cross_sections[key[2][1]][key[3]]
\* the control point a drag in progress works on
DraggedKey ==
    << editor.dragged_line_type[1],
       IF editor.dragged_line_type = Some("cross_section")
       THEN editor.dragged_cross_section_x ELSE None,
       editor.dragged_idx[1] + 1 >>

(* C23: a pointer move handled while Dragging changes at most the one
   control point being dragged: every other control point of the three
   families, the number of points of each family, the set of cross-section
   stations and line_version stay as they were. *)
C23_MoveTouchesOnePoint ==
    [][ (Dragging /\ Handles("motion_notify_event")) =>
          /\ PointKeys(two_d_data') = PointKeys(two_d_data)
          /\ DOMAIN two_d_data'.cross_sections = DOMAIN two_d_data.cross_sections
          /\ two_d_data'.line_version = Version
          /\ \A key \in PointKeys(two_d_data) \ {DraggedKey} :
               PointAt(two_d_data', key) = PointAt(two_d_data, key) ]_vars

\* a point of the cross-section on display was moved, next to other stations
C23_Witness ==
    /\ Events # << >>
    /\ LastLogged.event_type = "dragging"
    /\ LastLogged.line_type = "cross_section"
    /\ Cardinality(DOMAIN two_d_data.cross_sections) >= 2
    /\ LastLogged.new_coords = <<300, 400>>
    /\ PointAt(two_d_data, <<"cross_section", LastLogged.cross_section_x,
                             LastLogged.target_point_idx + 1>>) = <<300, 400>>

----------------------------------------------------------------------------
(* Properties of lofting during a drag *)

\* the drags that have been completed
DragEnds ==
    Cardinality({ i \in 1 .. Len(Events) : Events[i].event_type = "drag_end" })

(* C24: lofting is not excluded during a drag.  A wireframe lofted from the
   editor's data between a press and its release carries the line_version
   the data had before the drag, and its vertices are those of the control
   points as the moves have left them. *)
C24_LoftSeesLiveData ==
    [][ (Len(lofted') = Len(lofted) + 1
          /\ lofted'[Len(lofted')].status = "returned") =>
          LET w == lofted'[Len(lofted')]
              f == create_interpolation_function(two_d_data.half_breadth)
          IN  /\ w.model_version = Version
              /\ Dragging => w.model_version = 1 + DragEnds
              /\ Len(w.vertices) = 2 * Len(two_d_data.side_profile)
              /\ \A i \in 1 .. Len(two_d_data.side_profile) :
                   /\ w.vertices[2 * i - 1][1] = two_d_data.side_profile[i][1]
                   /\ w.vertices[2 * i - 1][3] = two_d_data.side_profile[i][2]
                   /\ w.vertices[2 * i - 1][2] = RAbs(interpolate_y(f,
                          Int2Rat(two_d_data.side_profile[i][1]))) ]_vars

\* lofted before the press and again after a move of the same drag: two
\* wireframes of the same model_version with different vertices
C24_Witness ==
    /\ Len(lofted) = 2
    /\ Dragging
    /\ EventTypes = <<"drag_start", "dragging">>
    /\ lofted[1].status = "returned"
    /\ lofted[2].status = "returned"
    /\ lofted[1].model_version = lofted[2].model_version
    /\ lofted[1].vertices # lofted[2].vertices
    /\ lofted[2].model_version = Version

----------------------------------------------------------------------------
(* Properties of the interaction log *)

(* C25: every recorded event of line type side_profile or half_breadth has
   cross_section_x = None, and every event of line type cross_section
   carries the station of the cross-section being edited, after any
   sequence of presses, moves and releases, a press during a drag
   included. *)
C25_StationOnlyForCrossSections ==
    \A i \in 1 .. Len(Events) :
        IF Events[i].line_type = "cross_section"
        THEN Events[i].cross_section_x = editor.current_cross_section_x
        ELSE Events[i].cross_section_x = None

----------------------------------------------------------------------------
(* Properties of the hull of the 3D test script *)

HullBuilt == hull_test.status = "built"
Range2(s) == { s[n] : n \in 1 .. Len(s) }
CeilHalf(n) == (n + 1) \div 2
\* the edges of one side, whose vertices start at index off
SideEdges(S, W, off) ==
    { << off + i * W + j, off + i * W + j + 1 >> :
          i \in 0 .. S - 1, j \in 0 .. W - 2 }
      \cup { << off + i * W + j, off + (i + 1) * W + j >> :
                 i \in 0 .. S - 2, j \in 0 .. W - 1 }
LateralEdges(S, W) ==
    { << i * W + j, S * W + i * W + j >> :
          i \in { a \in 0 .. S - 1 : a % 2 = 0 },
          j \in { b \in 0 .. W - 1 : b % 2 = 0 } }

(* C26: the test hull has 2*S*W vertices, the starboard vertex of station i
   and waterline j at index i*W+j and its port mirror (same x and z, negated
   y) at S*W+i*W+j; its edges are exactly the waterline-neighbour and
   station-neighbour pairs of each side and one lateral edge for every even
   i and even j, each once, 2S(W-1)+2W(S-1)+ceil(S/2)*ceil(W/2) in all, and
   every endpoint is a valid vertex index. *)
C26_GridTopology ==
    HullBuilt =>
        LET S == hull_test.num_stations
            W == hull_test.num_waterlines
            V == hull_test.vertices
            E == hull_test.edges
        IN  /\ Len(V) = 2 * S * W
            /\ \A i \in 0 .. S - 1, j \in 0 .. W - 1 :
                   LET star == V[i * W + j + 1]
                       port == V[S * W + i * W + j + 1]
                   IN  /\ star[1] = Rat(i * Lpp, S - 1)
                       /\ star[3] = Rat(j * TopWaterline, W - 1)
                       /\ port[1] = star[1]
                       /\ port[3] = star[3]
                       /\ port[2] = RNeg(star[2])
            /\ Range2(E) = SideEdges(S, W, 0) \cup SideEdges(S, W, S * W)
                               \cup LateralEdges(S, W)
            /\ Len(E) = 2 * S * (W - 1) + 2 * W * (S - 1)
                            + CeilHalf(S) * CeilHalf(W)
            /\ Cardinality(Range2(E)) = Len(E)
            /\ \A n \in 1 .. Len(E) :
                   /\ E[n][1] \in 0 .. Len(V) - 1
                   /\ E[n][2] \in 0 .. Len(V) - 1

\* the dense grid of the script, on a surface with non-zero half-breadths
C26_Witness ==
    /\ HullBuilt
    /\ hull_test.num_stations = DenseStations
    /\ hull_test.num_waterlines = DenseWaterlines
    /\ Len(hull_test.vertices) = 2142
    /\ Len(hull_test.edges) = 4426
    /\ hull_test.vertices[23][2] = Int2Rat(2)
    /\ hull_test.vertices[1071 + 23][2] = Int2Rat(-2)

----------------------------------------------------------------------------
(* Properties of line_version and of the log across whole sessions *)

\* line_version of the data the editor was constructed on
VersionAtConstruction ==
    CHOOSE v \in { data.line_version : data \in EditorInputs } : TRUE
\* the log before the step is a prefix of the log after it
LogGrows ==
    /\ Len(editor'.interaction_events) >= Len(Events)
    /\ SubSeq(editor'.interaction_events, 1, Len(Events)) = Events

(* C27: line_version equals its value at the construction of the editor plus
   the number of drag_end events in the log; no step decreases it, and a
   step that increases it increases it by one and appends a drag_end. *)
C27_VersionCountsDragEnds ==
    /\ [](Version = VersionAtConstruction + DragEnds)
    /\ [][ /\ two_d_data'.line_version >= Version
           /\ two_d_data'.line_version > Version =>
                 /\ two_d_data'.line_version = Version + 1
                 /\ AppendsOne("drag_end") ]_vars

\* a drag has ended and the next one has started
C27_Witness ==
    /\ EventTypes = <<"drag_start", "drag_end", "drag_start">>
    /\ Version = VersionAtConstruction + 1
    /\ Dragging

\* event k belongs to a drag that started at s and has not ended before k
OpenedBy(k, s) ==
    /\ s < k
    /\ Events[s].event_type = "drag_start"
    /\ Events[s].line_type = Events[k].line_type
    /\ Events[s].target_point_idx = Events[k].target_point_idx
    /\ \A m \in s + 1 .. k - 1 : Events[m].event_type # "drag_end"
WellBracketed ==
    \A k \in 1 .. Len(Events) :
        Events[k].event_type \in {"dragging", "drag_end"} =>
            \E s \in 1 .. Len(Events) : OpenedBy(k, s)

(* C28: the log only grows, every dragging and every drag_end event is
   preceded by a drag_start of the same line_type and target_point_idx with
   no drag_end between the two, and a step taken while the editor is Idle
   appends nothing but a drag_start. *)
C28_LogWellBracketed ==
    /\ []WellBracketed
    /\ [][ /\ LogGrows
           /\ (Idle /\ editor'.interaction_events # Events) =>
                 AppendsOne("drag_start") ]_vars

\* a press on a second point during a drag, then a move: the move is logged
\* for the second point, after two drag_start events
C28_Witness ==
    /\ EventTypes = <<"drag_start", "drag_start", "dragging">>
    /\ Events[1].line_type # Events[2].line_type
    /\ Events[3].line_type = Events[2].line_type

----------------------------------------------------------------------------
(* Properties of the axes a drag happens in *)

\* the curve family that is drawn in an axes; none in the information panel
FamilyOfAxes(axes) ==
    CASE axes = "side" -> Some("side_profile")
      [] axes = "half" -> Some("half_breadth")
      [] axes = "cross" -> Some("cross_section")
      [] OTHER -> None
NewestEvent == editor'.interaction_events[Len(editor'.interaction_events)]
PressInFamilyAxes ==
    (Handles("button_press_event") /\ AppendsOne("drag_start")) =>
        FamilyOfAxes(last_event'.inaxes[1]) = Some(NewestEvent.line_type)
MoveInFamilyAxes ==
    (Handles("motion_notify_event") /\ two_d_data' # two_d_data) =>
        FamilyOfAxes(last_event'.inaxes[1]) = editor.dragged_line_type

(* C29: a press starts a drag only on a control point of the family drawn in
   the axes the press occurred in, and a move changes the dragged point only
   when the pointer is in the axes of the dragged point's family. *)
C29_PickAndMoveInOwnAxes == [][PressInFamilyAxes /\ MoveInFamilyAxes]_vars

----------------------------------------------------------------------------
(* Properties of the replay of the log *)

Replayed == replay(update_call.before, Events)
SameControlPoints(a, b) ==
    /\ a.side_profile = b.side_profile
    /\ a.half_breadth = b.half_breadth
    /\ a.cross_sections = b.cross_sections

(* C30: whenever the editor is Idle, applying update_2d_lines to a copy of
   the data the editor was opened on, once for each drag_end event of the
   log and in the order of the log, yields the control points of all three
   families and the line_version of the data the editor has edited in
   place. *)
C30_ReplayEquivalence ==
    Idle =>
        /\ Replayed.status = "returned"
        /\ SameControlPoints(Replayed.ret[1], two_d_data)
        /\ Replayed.ret[1].line_version = Version

============================================================================
